---- MODULE Spec2Model ----
(***************************************************************************)
(* Model of the scaffold generator of create_module.py: main() validates   *)
(* the module name, AppStructureGenerator.create_app() materialises the    *)
(* structure template under modules/<name> and registers the module in     *)
(* core/settings.py by a textual read-modify-write.                        *)
(*                                                                         *)
(* Text is modelled at character level: a text is a sequence of one-       *)
(* character strings, so that splitlines(), '\n'.join(), the exact anchor  *)
(* match and the substring test of the duplicate guard are computed as the *)
(* code computes them.                                                     *)
(***************************************************************************)
EXTENDS Integers, Sequences, FiniteSets, TLC

(***************************************************************************)
(* Bounds of the model.                                                    *)
(***************************************************************************)
\* number of command-line invocations made in one behaviour
MaxInvocations == 2

\* number of filesystem calls that fail in one behaviour
MaxFaults == 1

\* the worker threads of the server
Threads == {1, 2}

\* the most requests the server is given
MaxRequests == 3

\* the operating-system processes that may run the script
Procs == {1, 2}

(***************************************************************************)
(* Characters and Python's str methods used by the script.                 *)
(***************************************************************************)
LowerChars == <<"a", "b", "c", "d", "e", "f", "g", "h", "i", "j", "k", "l", "m",
                "n", "o", "p", "q", "r", "s", "t", "u", "v", "w", "x", "y", "z">>

UpperChars == <<"A", "B", "C", "D", "E", "F", "G", "H", "I", "J", "K", "L", "M",
                "N", "O", "P", "Q", "R", "S", "T", "U", "V", "W", "X", "Y", "Z">>

Letters == {LowerChars[i] : i \in 1..26} \cup {UpperChars[i] : i \in 1..26}

Digits == {"0", "1", "2", "3", "4", "5", "6", "7", "8", "9"}

\* the line boundaries str.splitlines() recognises (ASCII part), "\r\n" being one boundary
LineBreaks == {"\n", "\r", "\f"}

\* str.lower() of one character
LowerChar(c) ==
    IF \E i \in 1..26 : UpperChars[i] = c
    THEN LowerChars[CHOOSE i \in 1..26 : UpperChars[i] = c]
    ELSE c

\* str.upper() of one character
UpperChar(c) ==
    IF \E i \in 1..26 : LowerChars[i] = c
    THEN UpperChars[CHOOSE i \in 1..26 : LowerChars[i] = c]
    ELSE c

\* str.lower()
Lower(s) == [i \in 1..Len(s) |-> LowerChar(s[i])]

\* str.capitalize(): first character upper-cased, all the others lower-cased
Capitalize(s) == [i \in 1..Len(s) |-> IF i = 1 THEN UpperChar(s[i]) ELSE LowerChar(s[i])]

\* a check of the characters only, which forgets the first character and the empty string
IsIdentifier_CharsOnly(s) == \A i \in 1..Len(s) : s[i] \in Letters \cup Digits \cup {"_"}

\* str.isidentifier() for ASCII strings; reserved words are identifiers for it
IsIdentifier(s) ==
    /\ s # <<>>
    /\ s[1] \in Letters \cup {"_"}
    /\ \A i \in 2..Len(s) : s[i] \in Letters \cup Digits \cup {"_"}

\* position of the first line boundary of s at or after b, Len(s) + 1 if there is none
NextBreak(s, b) ==
    IF \E j \in b..Len(s) : s[j] \in LineBreaks
    THEN CHOOSE j \in b..Len(s) :
            /\ s[j] \in LineBreaks
            /\ \A k \in b..(j - 1) : s[k] \notin LineBreaks
    ELSE Len(s) + 1

\* number of characters of the line boundary that begins at position j of s
BreakLen(s, j) == IF s[j] = "\r" /\ j < Len(s) /\ s[j + 1] = "\n" THEN 2 ELSE 1

\* the lines of s from position b on; a text ending in a boundary has no empty last line
RECURSIVE SplitFrom(_, _)
SplitFrom(s, b) ==
    IF b > Len(s) THEN <<>>
    ELSE LET j == NextBreak(s, b)
         IN  IF j > Len(s)
             THEN <<SubSeq(s, b, Len(s))>>
             ELSE <<SubSeq(s, b, j - 1)>> \o SplitFrom(s, j + BreakLen(s, j))

\* str.splitlines(): the lines of a text, line boundaries removed
SplitLines(s) == SplitFrom(s, 1)

RECURSIVE JoinFrom(_, _, _)
JoinFrom(lines, sep, i) ==
    IF i > Len(lines) THEN <<>>
    ELSE IF i = Len(lines) THEN lines[i]
    ELSE lines[i] \o sep \o JoinFrom(lines, sep, i + 1)

\* sep.join(lines)
Join(lines, sep) == JoinFrom(lines, sep, 1)

\* the Python test `sub in line` on strings
Contains(line, sub) ==
    \E i \in 0..(Len(line) - Len(sub)) : SubSeq(line, i + 1, i + Len(sub)) = sub

\* list.index(x), 1-based; 0 stands for the ValueError of an absent element
Index(content, x) ==
    IF \E i \in 1..Len(content) : content[i] = x
    THEN CHOOSE i \in 1..Len(content) :
            /\ content[i] = x
            /\ \A j \in 1..(i - 1) : content[j] # x
    ELSE 0

\* list.insert(k, x) with k counted from 0: x is placed before the element of index k
Insert(content, k, x) ==
    SubSeq(content, 1, k) \o <<x>> \o SubSeq(content, k + 1, Len(content))

(***************************************************************************)
(* The structure template and the files generated from the module name.    *)
(* A file content is a sequence of text chunks: the literal pieces of the  *)
(* template and the characters substituted into it.                        *)
(***************************************************************************)
\* _generate_app_config(app_name): the text of apps.py
GenerateAppConfig(app_name) ==
    <<"from django.apps import AppConfig\n\nclass ">>
    \o Capitalize(app_name)
    \o <<"Config(AppConfig):\n    default_auto_field = 'django.db.models.BigAutoField'\n    label = '">>
    \o app_name
    \o <<"'\n    name = 'modules.">>
    \o app_name
    \o <<"'\n">>

\* _generate_models_init(): the text of models/__init__.py
GenerateModelsInit ==
    <<"import os\nimport importlib\nimport inspect\nfrom django.db import models\n\n# Get the current directory\ncurrent_dir = os.path.dirname(os.path.abspath(__file__))\n\n# Loop through all .py files in the models directory\nfor file_name in os.listdir(current_dir):\n    if file_name.endswith('.py') and file_name != '__init__.py':\n        # Import the module\n        module_name = file_name[:-3]  # Remove .py extension\n        module = importlib.import_module(f'.{module_name}', package=__package__)\n        \n        # Find all Django Model classes in the module\n        for name, obj in inspect.getmembers(module):\n            if inspect.isclass(obj) and issubclass(obj, models.Model) and obj != models.Model:\n                # Add the model to the current namespace\n                globals()[name] = obj\n">>

\* a leaf file of the template
File(name, text) == [name |-> name, dir |-> FALSE, content |-> text, children |-> <<>>]

\* a sub-directory of the template
Dir(name, children) == [name |-> name, dir |-> TRUE, content |-> <<>>, children |-> children]

\* get_app_structure(app_name): the template, in the insertion order of the dict
GetAppStructure(app_name) ==
    << Dir("delivery", << File("__init__.py", <<>>),
                          File("api.py", <<"#write API endpoints and controllers here.">>),
                          File("schemas.py", <<"#write ninja schemas here">>),
                          File("middlewares.py", <<"#write your api middlewares here if needed">>) >>),
       Dir("repository", << File("__init__.py", <<>>) >>),
       Dir("services", << File("__init__.py", <<>>) >>),
       Dir("usecases", << File("__init__.py", <<>>) >>),
       Dir("models", << File("__init__.py", GenerateModelsInit) >>),
       Dir("migrations", << File("__init__.py", <<>>) >>),
       File("__init__.py", <<>>),
       File("apps.py", GenerateAppConfig(app_name)) >>

\* a path under MODULES_DIR: the module directory and the segments below it
Path(app, rel) == [app |-> app, rel |-> rel]

\* the path and every ancestor of it up to the module directory
Ancestors(path) == {Path(path.app, SubSeq(path.rel, 1, k)) : k \in 0..Len(path.rel)}

\* Path.parent of a path below the module directory
Parent(path) == Path(path.app, SubSeq(path.rel, 1, Len(path.rel) - 1))

\* the filesystem calls of _create_structure(base_path, structure), in the order the
\* recursion makes them; depth counts the nested _create_structure frames around a call
RECURSIVE CreateStructureOps(_, _, _)
RECURSIVE CreateStructureItems(_, _, _, _)
\* the files of a directory written before os.makedirs is called for it
CreateStructureOps_FilesFirst(base_path, structure, depth) ==
    CreateStructureItems(base_path, structure, 1, depth)
    \o <<[op |-> "makedirs", path |-> base_path, content |-> <<>>, depth |-> depth]>>

CreateStructureOps(base_path, structure, depth) ==
    <<[op |-> "makedirs", path |-> base_path, content |-> <<>>, depth |-> depth]>>
    \o CreateStructureItems(base_path, structure, 1, depth)

CreateStructureItems(base_path, structure, i, depth) ==
    IF i > Len(structure) THEN <<>>
    ELSE LET item == structure[i]
             current_path == Path(base_path.app, Append(base_path.rel, item.name))
         IN  (IF item.dir
              THEN CreateStructureOps(current_path, item.children, depth + 1)
              ELSE <<[op |-> "write_text", path |-> current_path,
                      content |-> item.content, depth |-> depth]>>)
             \o CreateStructureItems(base_path, structure, i + 1, depth)

(***************************************************************************)
(* The settings document and the inputs of the model.                      *)
(***************************************************************************)
\* the anchor line "LOCAL_APPS = [" searched by _register_app_in_settings
Anchor == <<"L", "O", "C", "A", "L", "_", "A", "P", "P", "S", " ", "=", " ", "[">>

\* app_config, the line built for app_name: "    'modules.<n>.apps.<N>Config',\n"
AppConfig(app_name) ==
    <<" ", " ", " ", " ", "'", "m", "o", "d", "u", "l", "e", "s", ".">> \o app_name \o <<".", "a", "p", "p", "s", ".">>
    \o Capitalize(app_name) \o <<"C", "o", "n", "f", "i", "g", "'", ",", "\n">>

\* the settings file as shipped (the LOCAL_APPS part of core/settings.py)
ShippedSettings ==
    <<"#", " ", "s", "\n", "L", "O", "C", "A", "L", "_", "A", "P", "P", "S", " ", "=", " ", "[", "\n", "\n", "]", "\n", "I", "N", "S", "T", "A", "L", "L", "E", "D", "_", "A", "P", "P", "S", " ", "=", " ", "L", "O", "C", "A", "L", "_", "A", "P", "P", "S", "\n">>

\* a settings file with two anchor lines and no final newline
TwoAnchorSettings ==
    <<"L", "O", "C", "A", "L", "_", "A", "P", "P", "S", " ", "=", " ", "[", "\n", "]", "\n", "L", "O", "C", "A", "L", "_", "A", "P", "P", "S", " ", "=", " ", "[", "\n", "]">>

\* a settings file whose list is written on one line: no line equals the anchor
NoAnchorSettings ==
    <<"L", "O", "C", "A", "L", "_", "A", "P", "P", "S", " ", "=", " ", "[", "]", "\n">>

\* a settings file with CRLF line ends in which module ab is registered
CrlfSettings ==
    <<"L", "O", "C", "A", "L", "_", "A", "P", "P", "S", " ", "=", " ", "[", "\r", "\n", " ", " ", " ", " ", "'", "m", "o", "d", "u", "l", "e", "s", ".", "a", "b", ".", "a", "p", "p", "s", ".", "A", "b", "C", "o", "n", "f", "i", "g", "'", ",", "\r", "\n", "]", "\r", "\n">>

\* a settings file with a comment that happens to contain the letters "ab"
CommentSettings ==
    <<"#", " ", "g", "r", "a", "b", "\n", "L", "O", "C", "A", "L", "_", "A", "P", "P", "S", " ", "=", " ", "[", "\n", "]", "\n">>

\* the texts core/settings.py may hold when the script is first run
InitialSettings ==
    {ShippedSettings, TwoAnchorSettings, NoAnchorSettings, CrlfSettings, CommentSettings}

\* the command-line arguments tried: identifiers, a mixed-case identifier, a reserved
\* word, and strings that are no identifiers (digit first, a space, empty)
ArgStrings ==
    { <<"a", "b">>, <<"A", "b">>, <<"b">>, <<"c", "l", "a", "s", "s">>, <<"1", "a">>, <<"a", " ", "b">>, <<>> }

\* sys.argv[1:], the argument lists tried: one argument, none, or two
ArgLists ==
    {<<a>> : a \in ArgStrings} \cup {<<>>, <<<<"a", "b">>, <<"b">>>>}

\* a module directory made by hand before the script runs, holding one file
UserTree == [dirs  |-> {Path(<<"b">>, <<>>)},
             files |-> [q \in {Path(<<"b">>, <<"apps.py">>)} |-> <<"# written by hand">>]]

\* nothing under modules/
EmptyTree == [dirs |-> {}, files |-> <<>>]

\* the states of modules/ when the script is first run
InitialTrees == {EmptyTree, UserTree}

(***************************************************************************)
(* State.                                                                  *)
(***************************************************************************)
VARIABLES
    dirs,            \* the directories that exist under MODULES_DIR
    files,           \* the files that exist under MODULES_DIR, with their content
    settingsExists,  \* SETTINGS_FILE.exists()
    settingsText,    \* the text of SETTINGS_FILE
    pc,              \* per process: where the invocation stands
    argv,            \* per process: sys.argv[1:]
    app_name,        \* per process: app_name of main and create_app
    todo,            \* per process: the filesystem calls _create_structure has still to make
    content,         \* per process: the list `content` of _register_app_in_settings
    error,           \* per process: the message that reached the top level, <<>> if none
    exit_status,     \* per process: status of sys.exit, 0 on normal return, -1 while running
    warned,          \* per process: the already-registered warning was printed
    raised,          \* per process: the first exception raised in this invocation (history)
    pre,             \* per process: filesystem and settings when the invocation began (history)
    order,           \* per process: rank of its latest invocation, 0 if none (history)
    invocations,     \* number of invocations begun so far
    faults,          \* number of filesystem calls that failed so far
    writes,          \* ranks of the invocations that wrote the settings file, in order (history)
    seen,            \* per process: the value of writes when it read the settings file (history)
    cmd_pc,          \* start_module: where handle() stands
    module_name,     \* start_module: options['module_name']
    cmd_todo,        \* start_module: the filesystem calls handle() has still to make
    settings_content,\* start_module: the text handle() read from core/settings.py
    cmd_error,       \* start_module: the CommandError raised, <<>> if none
    cmd_registered,  \* start_module: the "registered in settings.INSTALLED_APPS" message was written
    cmd_pre,         \* start_module: filesystem and settings when handle() began (history)
    request_id_storage, \* middleware, per thread: attribute request_id of _request_id_storage
    mw_pc,           \* middleware, per thread: where __call__ stands
    request,         \* middleware, per thread: request.request_id of the request being handled
    response,        \* middleware, per thread: header X-Request-ID of the response
    request_id,      \* middleware, per thread: the local request_id of __call__
    log_record,      \* middleware, per thread: record.request_id set by the last RequestIDFilter.filter
    requests         \* middleware: number of requests begun so far

vars == <<dirs, files, settingsExists, settingsText, pc, argv, app_name, todo, content,
          error, exit_status, warned, raised, pre, order, invocations, faults,
          writes, seen, cmd_pc, module_name, cmd_todo, settings_content, cmd_error,
          cmd_registered, cmd_pre, request_id_storage, mw_pc, request, response, request_id,
          log_record, requests>>

\* the variables of create_module.py
createvars == <<pc, argv, app_name, todo, content, error, exit_status, warned, raised, pre,
                order, faults, writes, seen>>

\* the variables of the start_module command
cmdvars == <<cmd_pc, module_name, cmd_todo, settings_content, cmd_error, cmd_registered,
             cmd_pre>>

\* the variables of RequestIDMiddleware
mwvars == <<request_id_storage, mw_pc, request, response, request_id, log_record, requests>>

\* the record of the accesses to the settings file
hist == <<writes, seen>>

shared == <<dirs, files, settingsExists, settingsText>>

\* the process is not executing the script
Terminated(p) == pc[p] \in {"NotStarted", "Completed", "Failed"}

\* the state of the disk, as remembered in pre
Snapshot == [dirs |-> dirs, files |-> files,
             settingsExists |-> settingsExists, settingsText |-> settingsText]

\* no thread has handled a request: _request_id_storage has no attribute on any thread
InitMiddleware ==
    /\ request_id_storage = [t \in Threads |-> "unset"]
    /\ mw_pc = [t \in Threads |-> "idle"]
    /\ request = [t \in Threads |-> "unset"]
    /\ response = [t \in Threads |-> "unset"]
    /\ request_id = [t \in Threads |-> "unset"]
    /\ log_record = [t \in Threads |-> "unset"]
    /\ requests = 0

\* the start_module command has not been run
InitCommand ==
    /\ cmd_pc = "NotStarted"
    /\ module_name = <<>>
    /\ cmd_todo = <<>>
    /\ settings_content = <<>>
    /\ cmd_error = <<>>
    /\ cmd_registered = FALSE
    /\ cmd_pre = Snapshot

\* no process has run create_module.py
InitProcesses ==
    /\ pc = [p \in Procs |-> "NotStarted"]
    /\ argv = [p \in Procs |-> <<>>]
    /\ app_name = [p \in Procs |-> <<>>]
    /\ todo = [p \in Procs |-> <<>>]
    /\ content = [p \in Procs |-> <<>>]
    /\ error = [p \in Procs |-> <<>>]
    /\ exit_status = [p \in Procs |-> -1]
    /\ warned = [p \in Procs |-> FALSE]
    /\ raised = [p \in Procs |-> <<>>]
    /\ pre = [p \in Procs |-> Snapshot]
    /\ order = [p \in Procs |-> 0]
    /\ invocations = 0
    /\ faults = 0
    /\ writes = <<>>
    /\ seen = [p \in Procs |-> <<>>]

Init ==
    /\ \E tree \in InitialTrees : dirs = tree.dirs /\ files = tree.files
    /\ \/ settingsExists = TRUE /\ settingsText \in InitialSettings
       \/ settingsExists = FALSE /\ settingsText = <<>>
    /\ InitCommand
    /\ InitMiddleware
    /\ InitProcesses

(***************************************************************************)
(* Exceptions: an exception is the sequence of its message parts, the      *)
(* outermost wrapper first; <<>> stands for no exception.                  *)
(***************************************************************************)
\* except clause of _create_structure, entered once per enclosing frame
RECURSIVE CreateStructureExcept(_, _)
CreateStructureExcept(e, depth) ==
    IF depth = 0 THEN e
    ELSE CreateStructureExcept(<<"Structure creation failed">> \o e, depth - 1)

\* except clause of _register_app_in_settings
RegisterExcept(e) == <<"App registration failed">> \o e

\* an except clause that prints the error and does not raise it again
CreateAppExcept_Swallow(e) == <<>>

\* except clause of create_app: every exception is raised again as AppCreationError
CreateAppExcept(e) == <<"App creation failed">> \o e

\* the status main ends the process with, given the exception create_app let out
MainExit(e) == IF e = <<>> THEN 0 ELSE 1

\* the end of the invocation of p, e being the exception that reached main
Finish(p, e) ==
    /\ pc' = [pc EXCEPT ![p] = IF MainExit(e) = 0 THEN "Completed" ELSE "Failed"]
    /\ exit_status' = [exit_status EXCEPT ![p] = MainExit(e)]
    /\ error' = [error EXCEPT ![p] = e]

\* the exception e0 is raised in the invocation of p
Raise(p, e0) == raised' = [raised EXCEPT ![p] = e0]

(***************************************************************************)
(* Filesystem calls.                                                       *)
(***************************************************************************)
\* the existence check made with is_file(): a directory is not seen
AppDirExists_IsFile(d, f, app_dir) == app_dir \in DOMAIN f

\* Path.exists() of the module directory
AppDirExists(d, f, app_dir) == app_dir \in d \/ app_dir \in DOMAIN f

\* os.makedirs(path) without exist_ok: an existing directory raises FileExistsError
MakedirsFails_NoExistOk(d, f, path) == path \in d \/ \E a \in Ancestors(path) : a \in DOMAIN f

\* os.makedirs(path, exist_ok=True) raises when a file is in the way
MakedirsFails(d, f, path) == \E a \in Ancestors(path) : a \in DOMAIN f

\* Path.write_text raises when the parent is no directory or the path is a directory
WriteTextFails(d, f, path) == Parent(path) \notin d \/ path \in d

\* the call op raises on the disk (d, f)
OpFails(d, f, op) ==
    IF op.op = "makedirs" THEN MakedirsFails(d, f, op.path) ELSE WriteTextFails(d, f, op.path)

\* the directories after the call op
DirsAfter(d, op) == IF op.op = "makedirs" THEN d \cup Ancestors(op.path) ELSE d

\* the file is created empty, as touch() would, instead of written
FilesAfter_Touch(f, op) == IF op.op = "write_text" THEN (op.path :> <<>>) @@ f ELSE f

\* the files after the call op
FilesAfter(f, op) == IF op.op = "write_text" THEN (op.path :> op.content) @@ f ELSE f

(***************************************************************************)
(* The decisions of _register_app_in_settings.                             *)
(***************************************************************************)
\* the anchor searched as a prefix of a line (startswith) instead of a whole line
StartIndex_Prefix(lines) ==
    LET starts(i) == Len(lines[i]) >= Len(Anchor) /\ SubSeq(lines[i], 1, Len(Anchor)) = Anchor
    IN  IF \E i \in 1..Len(lines) : starts(i)
        THEN CHOOSE i \in 1..Len(lines) : starts(i) /\ \A j \in 1..(i - 1) : ~starts(j)
        ELSE 0

\* 1-based position of the first anchor line, 0 when content.index raises ValueError
StartIndex(lines) == Index(lines, Anchor)

\* the guard looking for the registration line itself instead of any mention of the name
AlreadyRegistered_ExactLine(lines, name) ==
    \E i \in 1..Len(lines) : lines[i] \o <<"\n">> = AppConfig(name)

\* any(app_name in line for line in content)
AlreadyRegistered(lines, name) == \E i \in 1..Len(lines) : Contains(lines[i], name)

\* content[start_index + 1] = app_config: the line after the anchor is overwritten
InsertAppConfig_Overwrite(lines, start, name) ==
    IF start < Len(lines)
    THEN [lines EXCEPT ![start + 1] = AppConfig(name)]
    ELSE Append(lines, AppConfig(name))

\* content.insert(start_index, app_config): the line lands before the anchor
InsertAppConfig_Before(lines, start, name) == Insert(lines, start - 1, AppConfig(name))

\* content after content.insert(start_index + 1, app_config)
InsertAppConfig(lines, start, name) == Insert(lines, start, AppConfig(name))

\* the lines written back without a separator, ''.join(content)
SettingsOutput_Concat(lines) == Join(lines, <<>>)

\* the text handed to SETTINGS_FILE.write_text
SettingsOutput(lines) == Join(lines, <<"\n">>)

(***************************************************************************)
(* Actions.                                                                *)
(***************************************************************************)
\* main() up to the call of create_app: arity check, lower(), isidentifier()
Invoke(p, args) ==
    /\ Terminated(p)
    /\ invocations < MaxInvocations
    /\ invocations' = invocations + 1
    /\ order' = [order EXCEPT ![p] = invocations + 1]
    /\ argv' = [argv EXCEPT ![p] = args]
    /\ pre' = [pre EXCEPT ![p] = Snapshot]
    /\ todo' = [todo EXCEPT ![p] = <<>>]
    /\ content' = [content EXCEPT ![p] = <<>>]
    /\ warned' = [warned EXCEPT ![p] = FALSE]
    /\ IF Len(args) # 1
       THEN /\ app_name' = [app_name EXCEPT ![p] = <<>>]
            /\ Raise(p, <<"Invalid number of arguments">>)
            /\ Finish(p, <<"Invalid number of arguments">>)
       ELSE /\ app_name' = [app_name EXCEPT ![p] = Lower(args[1])]
            /\ IF ~IsIdentifier(Lower(args[1]))
               THEN /\ Raise(p, <<"Invalid app name">>)
                    /\ Finish(p, <<"Invalid app name">>)
               ELSE /\ Raise(p, <<>>)
                    /\ pc' = [pc EXCEPT ![p] = "create_app"]
                    /\ exit_status' = [exit_status EXCEPT ![p] = -1]
                    /\ error' = [error EXCEPT ![p] = <<>>]
    /\ seen' = [seen EXCEPT ![p] = <<>>]
    /\ UNCHANGED <<shared, faults, writes>>

\* create_app up to the call of _create_structure: the existence check
CreateApp(p) ==
    /\ pc[p] = "create_app"
    /\ LET app_dir == Path(app_name[p], <<>>)
       IN  IF AppDirExists(dirs, files, app_dir)
           THEN /\ Raise(p, <<"App already exists">>)
                /\ Finish(p, CreateAppExcept(<<"App already exists">>))
                /\ UNCHANGED todo
           ELSE /\ todo' = [todo EXCEPT ![p] =
                              CreateStructureOps(app_dir, GetAppStructure(app_name[p]), 1)]
                /\ pc' = [pc EXCEPT ![p] = "create_structure"]
                /\ UNCHANGED <<raised, error, exit_status>>
    /\ UNCHANGED <<shared, argv, app_name, content, warned, pre, order, invocations, faults,
                   hist>>

\* one filesystem call of _create_structure: os.makedirs or write_text
CreateStructureStep(p) ==
    /\ pc[p] = "create_structure"
    /\ LET op == Head(todo[p])
       IN  IF OpFails(dirs, files, op)
           THEN /\ Raise(p, <<"OSError">>)
                /\ Finish(p, CreateAppExcept(CreateStructureExcept(<<"OSError">>, op.depth)))
                /\ UNCHANGED <<dirs, files, todo>>
           ELSE /\ dirs' = DirsAfter(dirs, op)
                /\ files' = FilesAfter(files, op)
                /\ todo' = [todo EXCEPT ![p] = Tail(todo[p])]
                /\ pc' = [pc EXCEPT ![p] =
                            IF Tail(todo[p]) = <<>> THEN "register" ELSE "create_structure"]
                /\ UNCHANGED <<raised, error, exit_status>>
    /\ UNCHANGED <<settingsExists, settingsText, argv, app_name, content, warned, pre,
                   order, invocations, faults, hist>>

\* _register_app_in_settings up to the write: exists(), read_text().splitlines(),
\* the search of the anchor, the duplicate guard and content.insert
RegisterRead(p) ==
    /\ pc[p] = "register"
    /\ LET lines == SplitLines(settingsText)
           start == StartIndex(lines)
       IN  IF ~settingsExists
           THEN /\ Raise(p, <<"settings.py not found">>)
                /\ Finish(p, CreateAppExcept(RegisterExcept(<<"settings.py not found">>)))
                /\ UNCHANGED <<content, warned>>
           ELSE IF start = 0
           THEN /\ Raise(p, <<"LOCAL_APPS section not found in settings.py">>)
                /\ Finish(p, CreateAppExcept(RegisterExcept(
                                <<"LOCAL_APPS section not found in settings.py">>)))
                /\ content' = [content EXCEPT ![p] = lines]
                /\ UNCHANGED warned
           ELSE IF AlreadyRegistered(lines, app_name[p])
           THEN /\ warned' = [warned EXCEPT ![p] = TRUE]
                /\ content' = [content EXCEPT ![p] = lines]
                /\ Finish(p, <<>>)
                /\ UNCHANGED raised
           ELSE /\ content' = [content EXCEPT ![p] = InsertAppConfig(lines, start, app_name[p])]
                /\ pc' = [pc EXCEPT ![p] = "write_settings"]
                /\ UNCHANGED <<warned, raised, error, exit_status>>
    /\ seen' = [seen EXCEPT ![p] = writes]
    /\ UNCHANGED <<shared, argv, app_name, todo, pre, order, invocations, faults, writes>>

\* SETTINGS_FILE.write_text('\n'.join(content)) and the return to main
RegisterWrite(p) ==
    /\ pc[p] = "write_settings"
    /\ settingsText' = SettingsOutput(content[p])
    /\ settingsExists' = TRUE
    /\ Finish(p, <<>>)
    /\ writes' = Append(writes, order[p])
    /\ UNCHANGED <<dirs, files, argv, app_name, todo, content, warned, raised, pre,
                   order, invocations, faults, seen>>

\* a filesystem call fails for a reason outside the script (permissions, full disk):
\* the pending makedirs or write_text, the read of the settings file, or its write,
\* which may already have truncated the file
IOFault(p) ==
    /\ faults < MaxFaults
    /\ faults' = faults + 1
    /\ Raise(p, <<"OSError">>)
    /\ \/ /\ pc[p] = "create_structure"
          /\ Finish(p, CreateAppExcept(CreateStructureExcept(<<"OSError">>, Head(todo[p]).depth)))
          /\ UNCHANGED <<settingsExists, settingsText>>
       \/ /\ pc[p] = "register"
          /\ settingsExists
          /\ Finish(p, CreateAppExcept(RegisterExcept(<<"OSError">>)))
          /\ UNCHANGED <<settingsExists, settingsText>>
       \/ /\ pc[p] = "write_settings"
          /\ Finish(p, CreateAppExcept(RegisterExcept(<<"OSError">>)))
          /\ settingsText' \in {settingsText, <<>>}
          /\ UNCHANGED settingsExists
    /\ UNCHANGED <<dirs, files, argv, app_name, todo, content, warned, pre, order,
                   invocations, hist>>

\* no other process is executing the script, and the new process is given the number
\* that has been idle for longest
Sequential(p) ==
    /\ \A q \in Procs \ {p} : Terminated(q)
    /\ \A q \in Procs : order[p] < order[q] \/ (order[p] = order[q] /\ p <= q)

\* the script is run by one process at a time, on a filesystem that does not fail
Next ==
    /\ \E p \in Procs :
        \/ \E args \in ArgLists : Sequential(p) /\ Invoke(p, args)
        \/ CreateApp(p)
        \/ CreateStructureStep(p)
        \/ RegisterRead(p)
        \/ RegisterWrite(p)
    /\ UNCHANGED <<cmdvars, mwvars>>

Spec == Init /\ [][Next]_vars

\* the same, on a filesystem whose calls may fail
NextIO ==
    \/ Next
    \/ (\E p \in Procs : IOFault(p)) /\ UNCHANGED <<cmdvars, mwvars>>

SpecIO == Init /\ [][NextIO]_vars

\* the module names given to invocations that run at the same time
ConcArgLists == {<<a>> : a \in {<<"a", "b">>, <<"c", "l", "a", "s", "s">>}}

\* the script is run by several processes at once, each process running it once:
\* no lock orders their steps
NextConc ==
    /\ \E p \in Procs :
        \/ \E args \in ConcArgLists : order[p] = 0 /\ Invoke(p, args)
        \/ CreateApp(p)
        \/ CreateStructureStep(p)
        \/ RegisterRead(p)
        \/ RegisterWrite(p)
    /\ UNCHANGED <<cmdvars, mwvars>>

SpecConc == Init /\ [][NextConc]_vars

(***************************************************************************)
(* The start_module management command                                     *)
(* (core/management/commands/start_module.py).  It works on the same       *)
(* modules directory and the same core/settings.py as create_module.py.    *)
(***************************************************************************)
\* str.replace(old, new): every occurrence of old, from the left, none overlapping
RECURSIVE Replace(_, _, _)
Replace(s, old, new) ==
    IF ~Contains(s, old) THEN s
    ELSE LET i == CHOOSE k \in 0..(Len(s) - Len(old)) :
                      /\ SubSeq(s, k + 1, k + Len(old)) = old
                      /\ \A j \in 0..(k - 1) : SubSeq(s, j + 1, j + Len(old)) # old
         IN  SubSeq(s, 1, i) \o new \o Replace(SubSeq(s, i + Len(old) + 1, Len(s)), old, new)

\* what open('r').read() returns for a file: "\r\n" and "\r" are read as "\n"
RECURSIVE UniversalNewlines(_)
UniversalNewlines(text) ==
    LET b == NextBreak(text, 1)
    IN  IF b > Len(text) THEN text
        ELSE SubSeq(text, 1, b - 1)
             \o (IF text[b] = "\r" THEN <<"\n">> ELSE <<text[b]>>)
             \o UniversalNewlines(SubSeq(text, b + BreakLen(text, b), Len(text)))

\* f"'modules.{module_name}'"
QuotedModule(name) == <<"'", "m", "o", "d", "u", "l", "e", "s", ".">> \o name \o <<"'">>

\* the text that is replaced
InstalledAppsOpen ==
    <<"I", "N", "S", "T", "A", "L", "L", "E", "D", "_", "A", "P", "P", "S", " ", "=", " ", "[">>

\* f"INSTALLED_APPS = [\n    'modules.{module_name}',"
InstalledAppsWith(name) ==
    InstalledAppsOpen \o <<"\n", " ", " ", " ", " ">> \o QuotedModule(name) \o <<",">>

\* new_settings_content
NewSettingsContent(text, name) == Replace(text, InstalledAppsOpen, InstalledAppsWith(name))

\* the text written to apps.py, in pieces
CommandAppsPy(name) ==
    <<"\n", "from django.apps import AppConfig", "class ", Capitalize(name),
      "Config(AppConfig):", "default_auto_field", "name = 'modules.", name, "'\n">>

\* the list structure of handle(): (sub_dir, file_name), "" for None
CommandStructure ==
    << <<<<"delivery", "dtos">>, "user.dtos.py">>,
       <<<<"delivery", "handlers">>, "user.controller.py">>,
       <<<<"delivery", "middlewares">>, "">>,
       <<<<"delivery", "routes">>, "user.routes.py">>,
       <<<<"repository">>, "user.repository.py">>,
       <<<<"services">>, "user.services.py">>,
       <<<<"usecases">>, "user.usecases.py">> >>

\* the directories that are given an __init__.py
CommandPackages ==
    << <<>>, <<"delivery">>, <<"delivery", "dtos">>, <<"delivery", "handlers">>,
       <<"delivery", "middlewares">>, <<"delivery", "routes">>,
       <<"repository">>, <<"services">>, <<"usecases">> >>

\* one filesystem call of handle()
CommandOp(op, name, rel, text) == [op |-> op, path |-> Path(name, rel), content |-> text]

\* the calls of the loop over structure, from its i-th entry on
RECURSIVE CommandStructureOps(_, _)
CommandStructureOps(name, i) ==
    IF i > Len(CommandStructure) THEN <<>>
    ELSE LET sub_dir == CommandStructure[i][1]
             file_name == CommandStructure[i][2]
         IN  <<CommandOp("mkdir", name, sub_dir, <<>>)>>
             \o (IF file_name # ""
                 THEN <<CommandOp("touch", name, Append(sub_dir, file_name), <<>>)>>
                 ELSE <<>>)
             \o CommandStructureOps(name, i + 1)

\* the filesystem calls of the try block before the settings file is opened
CommandOps(name) ==
    <<CommandOp("mkdir", name, <<>>, <<>>)>>
    \o CommandStructureOps(name, 1)
    \o [i \in 1..Len(CommandPackages) |->
           CommandOp("touch", name, Append(CommandPackages[i], "__init__.py"), <<>>)]
    \o <<CommandOp("write_text", name, <<"apps.py">>, CommandAppsPy(name))>>

\* the call op raises on the disk (d, f): mkdir(parents=True, exist_ok=True) when a file
\* is in the way, touch() and write_text when the parent is no directory
CommandOpFails(d, f, op) ==
    CASE op.op = "mkdir" -> MakedirsFails(d, f, op.path)
      [] op.op = "touch" -> Parent(op.path) \notin d
      [] OTHER -> WriteTextFails(d, f, op.path)

\* the directories after the call op
CommandDirsAfter(d, op) == IF op.op = "mkdir" THEN d \cup Ancestors(op.path) ELSE d

\* the files after the call op: touch() creates an empty file and keeps an existing one
CommandFilesAfter(f, op) ==
    CASE op.op = "touch" -> IF op.path \in DOMAIN f THEN f ELSE (op.path :> <<>>) @@ f
      [] op.op = "write_text" -> (op.path :> op.content) @@ f
      [] OTHER -> f

\* except Exception as e: raise CommandError(...)
CommandExcept(e) == <<"An error occurred while creating the module">> \o e

\* handle() begins: the existence check, made before the try block
Handle(name) ==
    /\ cmd_pc \in {"NotStarted", "Completed", "Failed"}
    /\ invocations < MaxInvocations
    /\ invocations' = invocations + 1
    /\ module_name' = name
    /\ cmd_pre' = Snapshot
    /\ settings_content' = <<>>
    /\ cmd_registered' = FALSE
    /\ IF Path(name, <<>>) \in dirs \/ Path(name, <<>>) \in DOMAIN files
       THEN /\ cmd_pc' = "Failed"
            /\ cmd_error' = <<"The module already exists">>
            /\ cmd_todo' = <<>>
       ELSE /\ cmd_pc' = "create"
            /\ cmd_error' = <<>>
            /\ cmd_todo' = CommandOps(name)
    /\ UNCHANGED <<shared, createvars, mwvars>>

\* the next mkdir, touch or write_text of the try block
HandleCreateStep ==
    /\ cmd_pc = "create"
    /\ cmd_todo # <<>>
    /\ LET op == Head(cmd_todo)
       IN  IF CommandOpFails(dirs, files, op)
           THEN /\ cmd_pc' = "Failed"
                /\ cmd_error' = CommandExcept(<<"OSError">>)
                /\ cmd_todo' = <<>>
                /\ UNCHANGED <<dirs, files>>
           ELSE /\ dirs' = CommandDirsAfter(dirs, op)
                /\ files' = CommandFilesAfter(files, op)
                /\ cmd_todo' = Tail(cmd_todo)
                /\ cmd_pc' = IF Tail(cmd_todo) = <<>> THEN "read_settings" ELSE "create"
                /\ UNCHANGED cmd_error
    /\ UNCHANGED <<settingsExists, settingsText, invocations, module_name, settings_content,
                   cmd_registered, cmd_pre, createvars, mwvars>>

\* with settings_file.open('r') as f: settings_content = f.read()
HandleRead ==
    /\ cmd_pc = "read_settings"
    /\ IF settingsExists
       THEN /\ settings_content' = UniversalNewlines(settingsText)
            /\ cmd_pc' = "register"
            /\ UNCHANGED cmd_error
       ELSE /\ cmd_pc' = "Failed"
            /\ cmd_error' = CommandExcept(<<"FileNotFoundError">>)
            /\ UNCHANGED settings_content
    /\ UNCHANGED <<shared, invocations, module_name, cmd_todo, cmd_registered, cmd_pre,
                   createvars, mwvars>>

\* the test for the quoted module name, the replacement, the write and the message
HandleRegister ==
    /\ cmd_pc = "register"
    /\ IF ~Contains(settings_content, QuotedModule(module_name))
       THEN /\ settingsText' = NewSettingsContent(settings_content, module_name)
            /\ settingsExists' = TRUE
            /\ cmd_registered' = TRUE
       ELSE UNCHANGED <<settingsText, settingsExists, cmd_registered>>
    /\ cmd_pc' = "Completed"
    /\ UNCHANGED <<dirs, files, invocations, module_name, cmd_todo, settings_content,
                   cmd_error, cmd_pre, createvars, mwvars>>

\* core/settings.py as shipped, from LOCAL_APPS to INSTALLED_APPS (lines 28 to 32)
ShippedCoreSettings ==
    <<"L", "O", "C", "A", "L", "_", "A", "P", "P", "S", " ", "=", " ", "[", "\n", "\n", "]", "\n",
      "\n", "I", "N", "S", "T", "A", "L", "L", "E", "D", "_", "A", "P", "P", "S", " ", "=", " ",
      "D", "J", "A", "N", "G", "O", "_", "A", "P", "P", "S", " ", "+", " ", "T", "H", "I", "R",
      "D", "_", "P", "A", "R", "T", "Y", "_", "A", "P", "P", "S", " ", "+", " ", "L", "O", "C",
      "A", "L", "_", "A", "P", "P", "S", "\n">>

\* a settings file that opens its list with the text handle() replaces
ListSettings ==
    <<"I", "N", "S", "T", "A", "L", "L", "E", "D", "_", "A", "P", "P", "S", " ", "=", " ", "[",
      "\n", " ", " ", " ", " ", "'", "a", "'", ",", "\n", "]", "\n">>

\* the same with CRLF line ends and module ab in the list
RegisteredListSettings ==
    <<"I", "N", "S", "T", "A", "L", "L", "E", "D", "_", "A", "P", "P", "S", " ", "=", " ", "[",
      "\r", "\n", " ", " ", " ", " ", "'", "m", "o", "d", "u", "l", "e", "s", ".", "a", "b", "'",
      ",", "\r", "\n", "]", "\r", "\n">>

\* the settings files the command is run on
CommandSettings == {ShippedCoreSettings, ListSettings, RegisteredListSettings}

\* the module names given to the command, which checks none of them
CommandNames == {<<"a", "b">>, <<"b">>, <<"A", "b">>}

\* the states in which the command is first run
InitStartModule ==
    /\ \E tree \in InitialTrees : dirs = tree.dirs /\ files = tree.files
    /\ \/ settingsExists = TRUE /\ settingsText \in CommandSettings
       \/ settingsExists = FALSE /\ settingsText = <<>>
    /\ InitCommand
    /\ InitMiddleware
    /\ InitProcesses

\* manage.py start_module is run, one run after the other
NextStartModule ==
    \/ \E name \in CommandNames : Handle(name)
    \/ HandleCreateStep
    \/ HandleRead
    \/ HandleRegister

SpecStartModule == InitStartModule /\ [][NextStartModule]_vars

(***************************************************************************)
(* Vocabulary of the properties.                                           *)
(***************************************************************************)
\* the error of the specification's taxonomy that the top-level message e reports
ErrorKind(e) ==
    IF e = <<>> THEN "None"
    ELSE CASE e[Len(e)] = "Invalid number of arguments" -> "Usage"
           [] e[Len(e)] = "Invalid app name" -> "InvalidName"
           [] e[Len(e)] = "App already exists" -> "AlreadyExists"
           [] e[Len(e)] = "LOCAL_APPS section not found in settings.py" -> "AnchorNotFound"
           [] e[Len(e)] = "settings.py not found" -> "SettingsNotFound"
           [] e[Len(e)] = "OSError" -> "IOFailure"
           [] OTHER -> "Unknown"

\* the invocation of p has ended and no other invocation has begun since
Done(p) == pc[p] \in {"Completed", "Failed"} /\ order[p] = invocations

\* the invocation of p called create_app, that is CreateModule(app_name[p])
CalledCreateApp(p) == Len(argv[p]) = 1 /\ IsIdentifier(app_name[p])

\* something exists at <modules_root>/n on the disk (d, f)
ModulePresent(d, f, n) == \E path \in d \cup DOMAIN f : path.app = n

\* the lines of the settings document, and whether one of them is the anchor
SettingsLines(text) == SplitLines(text)

HasAnchorLine(text) ==
    \E i \in 1..Len(SettingsLines(text)) :
        SettingsLines(text)[i] = Anchor

\* some line of the settings document contains n
Mentions(text, n) ==
    \E i \in 1..Len(SettingsLines(text)) : Contains(SettingsLines(text)[i], n)

\* every directory and leaf file of the template exists under base with the template's content
RECURSIVE TemplateOnDisk(_, _, _)
TemplateOnDisk(base, structure, i) ==
    /\ base \in dirs
    /\ \/ i > Len(structure)
       \/ LET item == structure[i]
              current == Path(base.app, Append(base.rel, item.name))
          IN  /\ IF item.dir
                 THEN TemplateOnDisk(current, item.children, 1)
                 ELSE current \in DOMAIN files /\ files[current] = item.content
              /\ TemplateOnDisk(base, structure, i + 1)

\* the package markers and the apps.py that the scaffold of n must hold
MarkersAndAppsPy(n) ==
    /\ \A d \in {<<>>, <<"delivery">>, <<"repository">>, <<"services">>, <<"usecases">>,
                 <<"models">>, <<"migrations">>} :
          /\ Path(n, d) \in dirs
          /\ Path(n, Append(d, "__init__.py")) \in DOMAIN files
    /\ Path(n, <<"apps.py">>) \in DOMAIN files
    /\ LET text == files[Path(n, <<"apps.py">>)]
       IN  /\ Len(text) > Len(n) + 2
           /\ text[1] = "from django.apps import AppConfig\n\nclass "
           /\ SubSeq(text, 2, Len(n) + 1) = Capitalize(n)
           /\ text[Len(n) + 2] =
                "Config(AppConfig):\n    default_auto_field = 'django.db.models.BigAutoField'\n    label = '"

\* the scaffold of n is on disk
ScaffoldOnDisk(n) ==
    /\ TemplateOnDisk(Path(n, <<>>), GetAppStructure(n), 1)
    /\ MarkersAndAppsPy(n)

(***************************************************************************)
(* C1                                                                      *)
(***************************************************************************)
\* C1, as stated: for every valid identifier n for which <modules_root>/n does not exist,
\* CreateModule(n) succeeds and afterwards the whole template is on disk under n with the
\* template's content.
C1_AlwaysSucceeds ==
    \A p \in Procs :
        (Done(p) /\ CalledCreateApp(p) /\ ~ModulePresent(pre[p].dirs, pre[p].files, app_name[p]))
        => (pc[p] = "Completed" /\ ScaffoldOnDisk(app_name[p]))

\* C1, amended: for every valid identifier n for which <modules_root>/n does not exist,
\* CreateModule(n) succeeds exactly when the settings file exists and has an anchor line
\* (no filesystem call failing), and afterwards, succeeded or not, every directory and
\* file of the template is on disk under n with the template's content, package markers
\* and apps.py class <Capitalized n>Config included.
C1_ScaffoldCreated ==
    \A p \in Procs :
        (Done(p) /\ CalledCreateApp(p) /\ ~ModulePresent(pre[p].dirs, pre[p].files, app_name[p]))
        => /\ pc[p] = "Completed" <=>
                (pre[p].settingsExists /\ HasAnchorLine(pre[p].settingsText))
           /\ ScaffoldOnDisk(app_name[p])

C1_Witness ==
    \E p \in Procs :
        /\ Done(p) /\ CalledCreateApp(p) /\ pc[p] = "Completed"
        /\ ~ModulePresent(pre[p].dirs, pre[p].files, app_name[p])
        /\ ScaffoldOnDisk(app_name[p])
        /\ ~warned[p]

(***************************************************************************)
(* C2                                                                      *)
(***************************************************************************)
\* C2: when <modules_root>/n already exists, CreateModule(n) fails with AlreadyExists,
\* nothing at or under the directory is created, overwritten or removed, and the settings
\* document is not written.
C2_ExistingUntouched ==
    \A p \in Procs :
        (Done(p) /\ CalledCreateApp(p) /\ ModulePresent(pre[p].dirs, pre[p].files, app_name[p]))
        => /\ pc[p] = "Failed"
           /\ ErrorKind(error[p]) = "AlreadyExists"
           /\ dirs = pre[p].dirs
           /\ files = pre[p].files
           /\ settingsExists = pre[p].settingsExists
           /\ settingsText = pre[p].settingsText

C2_Witness ==
    \E p \in Procs :
        /\ Done(p) /\ CalledCreateApp(p) /\ pc[p] = "Failed"
        /\ ErrorKind(error[p]) = "AlreadyExists"
        /\ Path(app_name[p], <<"apps.py">>) \in DOMAIN files
        /\ files[Path(app_name[p], <<"apps.py">>)] = <<"# written by hand">>

(***************************************************************************)
(* C3                                                                      *)
(***************************************************************************)
\* the strings the claim names: empty, starting with a digit, or containing a space
NotAnIdentifier(s) ==
    \/ s = <<>>
    \/ s # <<>> /\ s[1] \in Digits
    \/ \E i \in 1..Len(s) : s[i] = " "

\* C3: a module name that is empty, starts with a digit or contains a space ends the
\* invocation with InvalidName, and neither the modules tree nor the settings document
\* has changed.
C3_InvalidNameNoWrite ==
    \A p \in Procs :
        (Done(p) /\ Len(argv[p]) = 1 /\ NotAnIdentifier(argv[p][1]))
        => /\ pc[p] = "Failed"
           /\ ErrorKind(error[p]) = "InvalidName"
           /\ Snapshot = pre[p]

C3_Witness ==
    \E p \in Procs :
        /\ Done(p) /\ Len(argv[p]) = 1 /\ argv[p][1] # <<>> /\ argv[p][1][1] \in Digits
        /\ ErrorKind(error[p]) = "InvalidName"
        /\ dirs # {}

\* the registration entry of n as a line of the document: "    'modules.<n>.apps.<N>Config',"
RegistrationEntry(n) ==
    <<" ", " ", " ", " ", "'", "m", "o", "d", "u", "l", "e", "s", ".">> \o n
    \o <<".", "a", "p", "p", "s", ".">> \o Capitalize(n)
    \o <<"C", "o", "n", "f", "i", "g", "'", ",">>

\* position of the first anchor line of the text, 0 if there is none
FirstAnchor(text) ==
    IF HasAnchorLine(text)
    THEN CHOOSE i \in 1..Len(SettingsLines(text)) :
            /\ SettingsLines(text)[i] = Anchor
            /\ \A j \in 1..(i - 1) : SettingsLines(text)[j] # Anchor
    ELSE 0

\* how many lines of the text are equal to the line
Occurrences(text, line) ==
    Cardinality({i \in 1..Len(SettingsLines(text)) : SettingsLines(text)[i] = line})

\* the invocation of p wrote the registration of its module
Registered(p) == Done(p) /\ CalledCreateApp(p) /\ pc[p] = "Completed" /\ ~warned[p]

(***************************************************************************)
(* C4                                                                      *)
(***************************************************************************)
\* q ran CreateModule(n) right after p ran it, n being absent before the run of p
TwiceInARow(p, q) ==
    /\ p # q /\ order[p] > 0 /\ order[q] = order[p] + 1 /\ Done(q)
    /\ CalledCreateApp(p) /\ CalledCreateApp(q) /\ app_name[q] = app_name[p]
    /\ ~ModulePresent(pre[p].dirs, pre[p].files, app_name[p])

\* the outcome the claim states for the two calls
FirstOkSecondRejected(p, q) ==
    /\ pc[p] = "Completed"
    /\ pc[q] = "Failed" /\ ErrorKind(error[q]) = "AlreadyExists"
    /\ Occurrences(settingsText, RegistrationEntry(app_name[p])) = 1

\* C4, as stated: CreateModule(n) twice in a row for a fresh n succeeds, then fails with
\* AlreadyExists, and the registration line of n is exactly once in the document.
C4_TwiceAlways ==
    \A p, q \in Procs : TwiceInARow(p, q) => FirstOkSecondRejected(p, q)

\* C4, amended: the same, when the settings document has an anchor line and none of its
\* lines contains n before the first call.
C4_TwiceWhenRegistrable ==
    \A p, q \in Procs :
        ( /\ TwiceInARow(p, q)
          /\ pre[p].settingsExists
          /\ HasAnchorLine(pre[p].settingsText)
          /\ ~Mentions(pre[p].settingsText, app_name[p]) )
        => FirstOkSecondRejected(p, q)

C4_Witness ==
    \E p, q \in Procs :
        /\ TwiceInARow(p, q) /\ FirstOkSecondRejected(p, q)
        /\ ~Mentions(pre[p].settingsText, app_name[p])

(***************************************************************************)
(* C5                                                                      *)
(***************************************************************************)
\* C5: when no line of the settings document equals the anchor, CreateModule(n) for a
\* fresh n fails with AnchorNotFound, the document is unchanged and the scaffold of n
\* stays on disk.
C5_AnchorNotFoundNoRollback ==
    \A p \in Procs :
        ( /\ Done(p) /\ CalledCreateApp(p)
          /\ ~ModulePresent(pre[p].dirs, pre[p].files, app_name[p])
          /\ pre[p].settingsExists
          /\ ~HasAnchorLine(pre[p].settingsText) )
        => /\ pc[p] = "Failed"
           /\ ErrorKind(error[p]) = "AnchorNotFound"
           /\ settingsExists /\ settingsText = pre[p].settingsText
           /\ ScaffoldOnDisk(app_name[p])

C5_Witness ==
    \E p \in Procs :
        /\ Done(p) /\ ErrorKind(error[p]) = "AnchorNotFound"
        /\ pre[p].settingsText = NoAnchorSettings
        /\ ScaffoldOnDisk(app_name[p])

(***************************************************************************)
(* C6                                                                      *)
(***************************************************************************)
\* C6: after a CreateModule(n) that registered n, the line right after the first anchor
\* line of the document is the registration entry of n.
C6_EntryAfterFirstAnchor ==
    \A p \in Procs :
        Registered(p)
        => LET lines == SettingsLines(settingsText)
               k == FirstAnchor(settingsText)
           IN  /\ k > 0 /\ k < Len(lines)
               /\ lines[k + 1] = RegistrationEntry(app_name[p])

C6_Witness ==
    \E p \in Procs :
        /\ Registered(p)
        /\ pre[p].settingsText = TwoAnchorSettings
        /\ SettingsLines(settingsText)[2] = RegistrationEntry(app_name[p])

(***************************************************************************)
(* C7                                                                      *)
(***************************************************************************)
\* C7: a registration adds exactly one line: the lines after the call are the lines
\* before it with the registration entry inserted after the first anchor, nothing else
\* added, removed or moved.
C7_ExactlyOneLineAdded ==
    \A p \in Procs :
        Registered(p)
        => SettingsLines(settingsText) =
              Insert(SettingsLines(pre[p].settingsText), FirstAnchor(pre[p].settingsText),
                     RegistrationEntry(app_name[p]))

(***************************************************************************)
(* C8                                                                      *)
(***************************************************************************)
\* C8: when the anchor line is present and a line of the document contains the module
\* name, the registration warns and returns without writing: the document is the same
\* text as before the call.
C8_DuplicateGuard ==
    \A p \in Procs :
        ( /\ Done(p) /\ CalledCreateApp(p)
          /\ ~ModulePresent(pre[p].dirs, pre[p].files, app_name[p])
          /\ pre[p].settingsExists
          /\ HasAnchorLine(pre[p].settingsText)
          /\ Mentions(pre[p].settingsText, app_name[p]) )
        => /\ warned[p]
           /\ pc[p] = "Completed"
           /\ settingsExists /\ settingsText = pre[p].settingsText

C8_Witness ==
    \E p \in Procs :
        /\ Done(p) /\ warned[p]
        /\ pre[p].settingsText = CommentSettings
        /\ settingsText = CommentSettings
        /\ Occurrences(settingsText, RegistrationEntry(app_name[p])) = 0

(***************************************************************************)
(* C9                                                                      *)
(***************************************************************************)
\* C9: an invocation in which an error was raised ends Failed with a non-zero exit status
\* and the error in its top-level message; an invocation ends Completed, with exit status
\* zero, only if no error was raised.
C9_ErrorsReachTopLevel ==
    \A p \in Procs :
        /\ pc[p] \in {"Completed", "Failed"} =>
              /\ raised[p] # <<>> <=> pc[p] = "Failed"
              /\ pc[p] = "Failed" =>
                    /\ exit_status[p] > 0
                    /\ error[p] # <<>>
                    /\ ErrorKind(error[p]) = ErrorKind(raised[p])
                    /\ ErrorKind(error[p]) \in {"Usage", "InvalidName", "AlreadyExists",
                                                "AnchorNotFound", "SettingsNotFound", "IOFailure"}
              /\ pc[p] = "Completed" => exit_status[p] = 0 /\ error[p] = <<>>
        /\ pc[p] \notin {"NotStarted", "Completed", "Failed"} =>
              raised[p] = <<>> /\ exit_status[p] = -1

C9_Witness ==
    \E p \in Procs :
        /\ pc[p] = "Failed" /\ exit_status[p] = 1
        /\ raised[p] = <<"OSError">>
        /\ error[p] = <<"App creation failed", "Structure creation failed",
                        "Structure creation failed", "OSError">>

(***************************************************************************)
(* C10                                                                     *)
(***************************************************************************)
\* the reserved words of Python
ReservedWords ==
    { <<"F", "a", "l", "s", "e">>,
      <<"N", "o", "n", "e">>,
      <<"T", "r", "u", "e">>,
      <<"a", "n", "d">>,
      <<"a", "s">>,
      <<"a", "s", "s", "e", "r", "t">>,
      <<"a", "s", "y", "n", "c">>,
      <<"a", "w", "a", "i", "t">>,
      <<"b", "r", "e", "a", "k">>,
      <<"c", "l", "a", "s", "s">>,
      <<"c", "o", "n", "t", "i", "n", "u", "e">>,
      <<"d", "e", "f">>,
      <<"d", "e", "l">>,
      <<"e", "l", "i", "f">>,
      <<"e", "l", "s", "e">>,
      <<"e", "x", "c", "e", "p", "t">>,
      <<"f", "i", "n", "a", "l", "l", "y">>,
      <<"f", "o", "r">>,
      <<"f", "r", "o", "m">>,
      <<"g", "l", "o", "b", "a", "l">>,
      <<"i", "f">>,
      <<"i", "m", "p", "o", "r", "t">>,
      <<"i", "n">>,
      <<"i", "s">>,
      <<"l", "a", "m", "b", "d", "a">>,
      <<"n", "o", "n", "l", "o", "c", "a", "l">>,
      <<"n", "o", "t">>,
      <<"o", "r">>,
      <<"p", "a", "s", "s">>,
      <<"r", "a", "i", "s", "e">>,
      <<"r", "e", "t", "u", "r", "n">>,
      <<"t", "r", "y">>,
      <<"w", "h", "i", "l", "e">>,
      <<"w", "i", "t", "h">>,
      <<"y", "i", "e", "l", "d">> }

\* C10: a module name that is a reserved word ends the invocation with InvalidName, and
\* neither the modules tree nor the settings document has changed.
C10_ReservedWordRejected ==
    \A p \in Procs :
        (Done(p) /\ Len(argv[p]) = 1 /\ argv[p][1] \in ReservedWords)
        => /\ pc[p] = "Failed"
           /\ ErrorKind(error[p]) = "InvalidName"
           /\ Snapshot = pre[p]

(***************************************************************************)
(* C11                                                                     *)
(***************************************************************************)
\* the invocation of p went past the existence check of create_app
PassedCheck(p) ==
    /\ CalledCreateApp(p)
    /\ pc[p] \notin {"NotStarted", "create_app"}
    /\ ErrorKind(error[p]) # "AlreadyExists"

\* p and q ran CreateModule for the same name and both went past the existence check,
\* which they can only have done before either created the directory; both have ended
BothPassedCheck(p, q) ==
    /\ p # q /\ app_name[p] = app_name[q]
    /\ PassedCheck(p) /\ PassedCheck(q)
    /\ Terminated(p) /\ Terminated(q)

\* the process that wrote the settings file last
LastWriter == CHOOSE p \in Procs : order[p] = writes[Len(writes)]

\* both p and q rewrote the settings file
BothWrote(p, q) ==
    /\ pc[p] = "Completed" /\ pc[q] = "Completed"
    /\ ~warned[p] /\ ~warned[q]

\* C11: two simultaneous invocations for one module name are not mutually excluded. When
\* both pass the existence check, neither fails with AlreadyExists nor on the directories
\* the other made, the whole tree is written, and when both rewrite the settings file
\* the final document is the text of the one that wrote last.
C11_NoMutualExclusion ==
    \A p, q \in Procs :
        BothPassedCheck(p, q)
        => /\ ErrorKind(error[p]) \notin {"AlreadyExists", "IOFailure"}
           /\ ErrorKind(error[q]) \notin {"AlreadyExists", "IOFailure"}
           /\ ScaffoldOnDisk(app_name[p])
           /\ BothWrote(p, q) =>
                 /\ Len(writes) = 2
                 /\ settingsText = SettingsOutput(content[LastWriter])

C11_Witness ==
    \E p, q \in Procs :
        /\ BothPassedCheck(p, q) /\ BothWrote(p, q)
        /\ seen[p] = <<>> /\ seen[q] = <<>>
        /\ writes = <<order[p], order[q]>>
        /\ settingsText = SettingsOutput(content[q])
        /\ ScaffoldOnDisk(app_name[p])

(***************************************************************************)
(* C13                                                                     *)
(***************************************************************************)
\* C13: directories are created before the files in them. In every state reached while
\* _create_structure runs, and in the state a failure part-way leaves, every file and
\* every directory under the modules root has its parent directory, and the write_text
\* that _create_structure is about to make is for a directory that already exists.
C13_DirectoriesBeforeFiles ==
    /\ \A path \in DOMAIN files : Parent(path) \in dirs
    /\ \A path \in dirs : path.rel # <<>> => Parent(path) \in dirs
    /\ \A p \in Procs :
          (pc[p] = "create_structure" /\ Head(todo[p]).op = "write_text")
          => Parent(Head(todo[p]).path) \in dirs

C13_Witness ==
    \E p \in Procs :
        /\ pc[p] = "Failed" /\ ErrorKind(error[p]) = "IOFailure"
        /\ todo[p] # <<>> /\ Head(todo[p]).op = "write_text"
        /\ Head(todo[p]).path = Path(app_name[p], <<"models", "__init__.py">>)
        /\ Path(app_name[p], <<"models">>) \in dirs
        /\ Path(app_name[p], <<"usecases", "__init__.py">>) \in DOMAIN files
        /\ Path(app_name[p], <<"apps.py">>) \notin DOMAIN files

(***************************************************************************)
(* C14                                                                     *)
(***************************************************************************)
\* n is a fresh module name for the invocation of p: when it began, nothing was at
\* <modules_root>/n and no line of the settings document contained n
FreshFor(p) ==
    /\ ~ModulePresent(pre[p].dirs, pre[p].files, app_name[p])
    /\ pre[p].settingsExists
    /\ HasAnchorLine(pre[p].settingsText)
    /\ ~Mentions(pre[p].settingsText, app_name[p])

\* p and q ran CreateModule for two different fresh names and both succeeded
TwoNamesBothSucceeded(p, q) ==
    /\ p # q /\ app_name[p] # app_name[q]
    /\ CalledCreateApp(p) /\ CalledCreateApp(q)
    /\ FreshFor(p) /\ FreshFor(q)
    /\ pc[p] = "Completed" /\ pc[q] = "Completed"

\* the registration entry of the module of p is a line of the settings document
EntryPresent(p) == Occurrences(settingsText, RegistrationEntry(app_name[p])) >= 1

\* q read the settings file after p had written it
ReadAfterWrite(p, q) == \E i \in 1..Len(seen[q]) : seen[q][i] = order[p]

\* C14, as stated: two concurrent invocations for two different fresh names that both
\* complete successfully always leave both registration entries in the document.
C14_NoLostRegistration ==
    \A p, q \in Procs :
        TwoNamesBothSucceeded(p, q) => (EntryPresent(p) /\ EntryPresent(q))

\* C14, amended: two such invocations, neither stopped by the duplicate guard, leave both
\* registration entries when one of them read the settings file after the other had
\* written it; when both read it before either wrote, the document holds the entry of
\* the one that wrote last and not the entry of the other.
C14_LastWriterWins ==
    \A p, q \in Procs :
        (TwoNamesBothSucceeded(p, q) /\ ~warned[p] /\ ~warned[q])
        => /\ (ReadAfterWrite(p, q) \/ ReadAfterWrite(q, p))
                 => (EntryPresent(p) /\ EntryPresent(q))
           /\ (~ReadAfterWrite(p, q) /\ ~ReadAfterWrite(q, p))
                 => /\ EntryPresent(LastWriter)
                    /\ \A r \in {p, q} \ {LastWriter} : ~EntryPresent(r)

C14_Witness ==
    \E p, q \in Procs :
        /\ TwoNamesBothSucceeded(p, q) /\ ~warned[p] /\ ~warned[q]
        /\ pc[q] = "Completed" /\ ReadAfterWrite(p, q)
        /\ EntryPresent(p) /\ EntryPresent(q)

(***************************************************************************)
(* C12: start_module registers the module it creates.                      *)
(***************************************************************************)
\* handle() returned without a CommandError, so the module directory did not exist
CommandSucceeded == cmd_pc = "Completed"

\* the command was run on the settings file as shipped
OnShippedSettings == cmd_pre.settingsExists /\ cmd_pre.settingsText = ShippedCoreSettings

\* C12: after handle() completes without error for a module name whose directory did
\* not exist, the shipped core/settings.py contains the entry 'modules.<module_name>'
C12_ModuleRegistered ==
    (CommandSucceeded /\ OnShippedSettings)
        => Contains(settingsText, QuotedModule(module_name))

\* what the command does instead: it writes the shipped text back as it was and
\* reports the registration
C12_ShippedTextUnchanged ==
    (CommandSucceeded /\ OnShippedSettings)
        => settingsText = ShippedCoreSettings /\ cmd_registered

\* the replacement takes effect on a settings file that opens the list as searched
C12_ListStyleRegistered ==
    (CommandSucceeded /\ cmd_pre.settingsExists /\ cmd_pre.settingsText = ListSettings)
        => Contains(settingsText, QuotedModule(module_name))

(***************************************************************************)
(* RequestIDMiddleware (core/middlewares/request_id.py).  Each worker      *)
(* thread handles one request at a time; _request_id_storage is a          *)
(* threading.local, so each thread has its own attribute request_id.       *)
(***************************************************************************)
\* the values str(uuid.uuid4())[:8] may take
UuidPrefixes == {"1a2b3c4d", "5e6f7a8b"}

\* Python's None
None == "None"

\* get_request_id() called on thread t: getattr(_request_id_storage, 'request_id', None)
GetRequestId(t) == IF request_id_storage[t] = "unset" THEN None ELSE request_id_storage[t]

\* the request_id that RequestIDFilter.filter attaches to a record logged on thread t
FilterRequestId(t) == IF GetRequestId(t) = None THEN "N/A" ELSE GetRequestId(t)

\* __call__ begins on thread t: the ID is generated and stored in the thread-local
\* storage and on the request
Call(t, id) ==
    /\ mw_pc[t] = "idle"
    /\ requests < MaxRequests
    /\ requests' = requests + 1
    /\ request_id' = [request_id EXCEPT ![t] = id]
    /\ request_id_storage' = [request_id_storage EXCEPT ![t] = id]
    /\ request' = [request EXCEPT ![t] = id]
    /\ response' = [response EXCEPT ![t] = "unset"]
    /\ mw_pc' = [mw_pc EXCEPT ![t] = "get_response"]
    /\ UNCHANGED <<log_record, shared, invocations, createvars, cmdvars>>

\* response = self.get_response(request): the rest of the chain makes the response
GetResponse(t) ==
    /\ mw_pc[t] = "get_response"
    /\ response' = [response EXCEPT ![t] = "no header"]
    /\ mw_pc' = [mw_pc EXCEPT ![t] = "set_header"]
    /\ UNCHANGED <<request_id_storage, request, request_id, log_record, requests,
                   shared, invocations, createvars, cmdvars>>

\* response['X-Request-ID'] = request_id; return response
Return(t) ==
    /\ mw_pc[t] = "set_header"
    /\ response' = [response EXCEPT ![t] = request_id[t]]
    /\ mw_pc' = [mw_pc EXCEPT ![t] = "idle"]
    /\ UNCHANGED <<request_id_storage, request, request_id, log_record, requests,
                   shared, invocations, createvars, cmdvars>>

\* a record is logged on thread t and passes RequestIDFilter.filter
Filter(t) ==
    /\ log_record' = [log_record EXCEPT ![t] = FilterRequestId(t)]
    /\ UNCHANGED <<request_id_storage, mw_pc, request, response, request_id, requests,
                   shared, invocations, createvars, cmdvars>>

\* the worker threads handle requests and log, in any interleaving
NextMiddleware ==
    \E t \in Threads :
        \/ \E id \in UuidPrefixes : Call(t, id)
        \/ GetResponse(t)
        \/ Return(t)
        \/ Filter(t)

SpecMiddleware == Init /\ [][NextMiddleware]_vars

(***************************************************************************)
(* C15: request-ID isolation.                                              *)
(***************************************************************************)
\* thread t is handling a request
Handling(t) == mw_pc[t] # "idle"

\* thread t has returned the response of a request
Returned(t) == mw_pc[t] = "idle" /\ response[t] # "unset"

\* on a thread that is handling a request, get_request_id() returns the ID generated
\* for that request, which is also request.request_id
OwnIdWhileHandling ==
    \A t \in Threads :
        Handling(t) => GetRequestId(t) = request_id[t] /\ request[t] = request_id[t]

\* the response a thread returns carries the ID of its request in X-Request-ID
HeaderIsOwnId == \A t \in Threads : Returned(t) => response[t] = request_id[t]

\* on a thread that is handling no request, get_request_id() returns None and a
\* record is logged with "N/A"
NoneWhenIdle ==
    \A t \in Threads : ~Handling(t) => GetRequestId(t) = None /\ FilterRequestId(t) = "N/A"

\* C15: while a thread handles a request get_request_id() returns the ID generated for
\* that request, never another thread's, the same ID is request.request_id and the
\* X-Request-ID header, and on a thread handling no request, also after a request on
\* it has finished, get_request_id() returns None and records are logged with "N/A"
C15_RequestIdIsolation == OwnIdWhileHandling /\ HeaderIsOwnId /\ NoneWhenIdle

\* the part that holds: the ID is the request's own while the request is handled
C15_IsolatedWhileHandling == OwnIdWhileHandling /\ HeaderIsOwnId

\* what a thread reports after its request has finished: the ID of that request
C15_StaleIdAfterRequest ==
    \A t \in Threads : Returned(t) => GetRequestId(t) = request_id[t]

====
